---- MODULE Spec2Model ----
(***************************************************************************)
(* A model of prompting/tools/dataset.py: the dataset adapters MockDataset, *)
(* CodingDataset, WikiDataset, StackOverflowDataset, DateQADataset and      *)
(* MathDataset, and the helper chunk().                                     *)
(*                                                                          *)
(* Python strings are sequences of one-character strings.  A Python value   *)
(* that may be None is <<>> (None) or <<v>> (the value v).  Each adapter is *)
(* one variable holding a record; an adapter that a specification does not  *)
(* construct has pc = "off".                                                *)
(***************************************************************************)
EXTENDS Integers, Sequences, FiniteSets, TLC

VARIABLES mockds, chunker, coding, wiki, stack, dateqa, mathds

vars == <<mockds, chunker, coding, wiki, stack, dateqa, mathds>>

Off == [pc |-> "off"]

None == <<>>

Some(v) == <<v>>

Min(a, b) == IF a < b THEN a ELSE b

(***************************************************************************)
(* String helpers (str.split, str.join, str.strip, str.splitlines).         *)
(***************************************************************************)

\* the whitespace characters of the alphabets used below
Whitespace == {" ", "\n"}

\* s.strip() == "" : the test `if chunk.strip()` fails
IsBlank(s) == \A i \in 1..Len(s) : s[i] \in Whitespace

NonBlank(s) == ~IsBlank(s)

RECURSIVE SplitFrom(_, _, _, _)
SplitFrom(text, sep, i, cur) ==
    IF i > Len(text) THEN <<cur>>
    ELSE IF i + Len(sep) - 1 <= Len(text) /\ SubSeq(text, i, i + Len(sep) - 1) = sep
         THEN <<cur>> \o SplitFrom(text, sep, i + Len(sep), <<>>)
         ELSE SplitFrom(text, sep, i + 1, Append(cur, text[i]))

\* text.split(sep), sep a non-empty string
Split(text, sep) == SplitFrom(text, sep, 1, <<>>)

RECURSIVE Join(_, _)
\* sep.join(segs)
Join(segs, sep) ==
    IF Len(segs) = 0 THEN <<>>
    ELSE IF Len(segs) = 1 THEN segs[1]
    ELSE segs[1] \o sep \o Join(Tail(segs), sep)

\* len(text.split()): the number of maximal runs of non-whitespace characters
WordCount(text) ==
    Cardinality({i \in 1..Len(text) :
        /\ text[i] \notin Whitespace
        /\ (i = 1 \/ text[i - 1] \in Whitespace)})

\* s.strip(chars): drop the leading and trailing characters that are in chars
StripChars(s, chars) ==
    LET keep == {i \in 1..Len(s) : s[i] \notin chars}
    IN  IF keep = {} THEN <<>>
        ELSE SubSeq(s, CHOOSE i \in keep : \A j \in keep : i <= j,
                       CHOOSE i \in keep : \A j \in keep : j <= i)

\* text.splitlines(): the lines of text, no empty last line after a final "\n"
Splitlines(text) ==
    LET parts == Split(text, <<"\n">>)
    IN  IF parts[Len(parts)] = <<>> THEN SubSeq(parts, 1, Len(parts) - 1) ELSE parts

(***************************************************************************)
(* chunk(text, sep, n_chunks)                                               *)
(***************************************************************************)

MaxText == 5

MaxNChunks == 3

ChunkAlphabet == {"a", "b", " ", "\n"}

ChunkSeps == {<<"\n">>, <<" ">>, <<"\n", "\n">>}

Strings(alphabet, n) == UNION {[1..k -> alphabet] : k \in 0..n}

\* chunks = [chunk for chunk in text.split(sep) if chunk.strip()]
ChunkList(text, sep) == SelectSeq(Split(text, sep), NonBlank)

\* n_chunks, or random.randint(1, len(chunks)) when it is None
ChunkCounts(chunks, n_chunks) ==
    IF n_chunks = None THEN 1..Len(chunks) ELSE {n_chunks[1]}

\* a start index drawn one past the last full run
ChunkStartsPastEnd(chunks, n) == 0..(Len(chunks) - n + 1)

\* random.randint(0, len(chunks) - n_chunks)
ChunkStarts(chunks, n) == 0..(Len(chunks) - n)

\* chunks[start_chunk : start_chunk + n_chunks]
ChunkSlice(chunks, start, n) ==
    SubSeq(chunks, start + 1, Min(start + n, Len(chunks)))

\* every outcome of one call: random.randint raises ValueError on an empty range
ChunkOutcomes(text, sep, n_chunks) ==
    LET chunks == ChunkList(text, sep)
        counts == ChunkCounts(chunks, n_chunks)
    IN  IF counts = {} THEN {[status |-> "raised", out |-> <<>>]}
        ELSE UNION {
            IF ChunkStarts(chunks, n) = {}
            THEN {[status |-> "raised", out |-> <<>>]}
            ELSE {[status |-> "returned",
                   out |-> Join(ChunkSlice(chunks, start, n), sep)] :
                        start \in ChunkStarts(chunks, n)}
            : n \in counts}

ChunkInit == chunker = [pc |-> "idle", text |-> <<>>, sep |-> <<"\n">>,
                        n_chunks |-> None, out |-> <<>>]

ChunkCall ==
    /\ chunker.pc = "idle"
    /\ \E text \in Strings(ChunkAlphabet, MaxText), sep \in ChunkSeps,
          n_chunks \in {None} \cup {Some(k) : k \in 1..MaxNChunks} :
         \E o \in ChunkOutcomes(text, sep, n_chunks) :
            chunker' = [pc |-> o.status, text |-> text, sep |-> sep,
                        n_chunks |-> n_chunks, out |-> o.out]
    /\ UNCHANGED <<mockds, coding, wiki, stack, dateqa, mathds>>

SpecChunkInit ==
    /\ ChunkInit
    /\ mockds = Off /\ coding = Off /\ wiki = Off
    /\ stack = Off /\ dateqa = Off /\ mathds = Off

SpecChunkNext == ChunkCall

SpecChunk == SpecChunkInit /\ [][SpecChunkNext]_vars

\* C3: whenever chunk(text, sep, n_chunks=k) is called with 1 <= k <= the number
\* of non-blank segments of text, it returns, and what it returns splits by sep
\* into exactly k segments, none blank, that are a contiguous run (same order,
\* no gaps) of the non-blank segments of text.
C3_ChunkContiguous ==
    (chunker.pc \in {"returned", "raised"} /\ chunker.n_chunks # None) =>
        LET all == SelectSeq(Split(chunker.text, chunker.sep), NonBlank)
            k == chunker.n_chunks[1]
            got == Split(chunker.out, chunker.sep)
        IN  (1 <= k /\ k <= Len(all)) =>
                /\ chunker.pc = "returned"
                /\ Len(got) = k
                /\ \A i \in 1..k : ~IsBlank(got[i])
                /\ \E s \in 0..(Len(all) - k) : got = SubSeq(all, s + 1, s + k)

\* a call with k = 2 of the three non-blank segments, taken from the second on
C3_Witness ==
    /\ chunker.pc = "returned"
    /\ chunker.n_chunks = Some(2)
    /\ Len(SelectSeq(Split(chunker.text, chunker.sep), NonBlank)) = 3
    /\ chunker.out = Join(SubSeq(SelectSeq(Split(chunker.text, chunker.sep), NonBlank), 2, 3),
                          chunker.sep)

(***************************************************************************)
(* time.time() - t0: the wall-clock time a call took                        *)
(***************************************************************************)

MaxElapsed == 1

Elapsed == 0..MaxElapsed

(***************************************************************************)
(* MockDataset                                                              *)
(***************************************************************************)

MockInit == mockds = [pc |-> "idle", ret |-> None]

\* MockDataset.next()
MockNext ==
    /\ mockds.pc = "idle"
    /\ mockds' = [pc |-> "returned",
                  ret |-> Some([text |-> "What is the capital of Texas?"])]
    /\ UNCHANGED <<chunker, coding, wiki, stack, dateqa, mathds>>

(***************************************************************************)
(* CodingDataset                                                            *)
(***************************************************************************)

MaxCode == 2

MaxPulls == 3

CodeAlphabet == {"x", "\n"}

\* the values next() is called with for min_lines and max_lines
LineArgs == {0, 1, 2}

\* the test a sample must pass, with the lower bound exclusive
CodingAcceptsExclusive(code, min_lines, max_lines) ==
    min_lines < Len(Splitlines(code.code)) /\ Len(Splitlines(code.code)) <= max_lines

\* min_lines <= len(code["code"].splitlines()) <= max_lines
CodingAccepts(code, min_lines, max_lines) ==
    min_lines <= Len(Splitlines(code.code)) /\ Len(Splitlines(code.code)) <= max_lines

CodingInit == coding = [pc |-> "idle", min_lines |-> 0, max_lines |-> 0,
                        pulled |-> <<>>, ret |-> None]

\* CodingDataset.next(min_lines, max_lines): entry, t0 = time.time()
CodingNext ==
    /\ coding.pc = "idle"
    /\ \E min_lines \in LineArgs, max_lines \in LineArgs :
         coding' = [coding EXCEPT !.pc = "loop", !.min_lines = min_lines,
                                  !.max_lines = max_lines]
    /\ UNCHANGED <<mockds, chunker, wiki, stack, dateqa, mathds>>

\* one turn of `while True`: code = next(self.dataset), then the line-count test
CodingPull ==
    /\ coding.pc = "loop"
    /\ Len(coding.pulled) < MaxPulls
    /\ \E text \in Strings(CodeAlphabet, MaxCode) :
         LET code == [code |-> text]
         IN  IF CodingAccepts(code, coding.min_lines, coding.max_lines)
             THEN \E dt \in Elapsed :
                    coding' = [coding EXCEPT
                        !.pc = "returned",
                        !.pulled = Append(@, code),
                        !.ret = Some(code @@ [fetch_time |-> dt])]
             ELSE coding' = [coding EXCEPT !.pulled = Append(@, code)]
    /\ UNCHANGED <<mockds, chunker, wiki, stack, dateqa, mathds>>

\* next(self.dataset) on a stream that has ended raises StopIteration
CodingStreamEnd ==
    /\ coding.pc = "loop"
    /\ coding' = [coding EXCEPT !.pc = "raised"]
    /\ UNCHANGED <<mockds, chunker, wiki, stack, dateqa, mathds>>

SpecCodingInit ==
    /\ CodingInit
    /\ mockds = Off /\ chunker = Off /\ wiki = Off
    /\ stack = Off /\ dateqa = Off /\ mathds = Off

SpecCodingNext == CodingNext \/ CodingPull \/ CodingStreamEnd

SpecCoding == SpecCodingInit /\ [][SpecCodingNext]_vars

\* the number of lines of a text: its newlines, and one more when it does not
\* end on a newline (and is not empty)
LineCount(text) ==
    Cardinality({i \in 1..Len(text) : text[i] = "\n"})
      + (IF Len(text) > 0 /\ text[Len(text)] # "\n" THEN 1 ELSE 0)

\* C8: a record CodingDataset.next(min_lines, max_lines) returns has a line
\* count in [min_lines, max_lines]; it is the last sample the call pulled, and
\* every sample the call pulled before it had a line count out of range.
C8_CodingInRange ==
    coding.pc = "returned" =>
        LET n == Len(coding.pulled)
            InRange(text) == coding.min_lines <= LineCount(text)
                                /\ LineCount(text) <= coding.max_lines
        IN  /\ n >= 1
            /\ coding.ret[1].code = coding.pulled[n].code
            /\ InRange(coding.ret[1].code)
            /\ \A i \in 1..(n - 1) : ~InRange(coding.pulled[i].code)

\* a call that discarded a too-short and a too-long sample before it returned
C8_Witness ==
    /\ coding.pc = "returned"
    /\ Len(coding.pulled) = 3
    /\ coding.min_lines = 1 /\ coding.max_lines = 1
    /\ LineCount(coding.pulled[1].code) = 0
    /\ LineCount(coding.pulled[2].code) = 2

(***************************************************************************)
(* random.Random(seed): a generator whose n-th draw is a function of the    *)
(* seed and of n alone.  The module-level functions of `random` draw from   *)
(* the global generator, whose state the adapters do not control: any value *)
(* of the range.                                                            *)
(***************************************************************************)

Seeds == {0, 1, 2}

\* the n-th raw output of random.Random(seed)
Prng(seed, n) == (seed * 7 + n * 13 + n * n * 5 + 3) % 31

\* rng.randint(a, b) at draw n
RngRandint(seed, n, a, b) == a + (Prng(seed, n) % (b - a + 1))

\* rng.choice(seq) at draw n, seq not empty
RngChoice(seed, n, seq) == seq[1 + (Prng(seed, n) % Len(seq))]

\* random.choice(seq) of the global generator: any element
GlobalChoices(seq) == {seq[i] : i \in 1..Len(seq)}

\* the orders random.shuffle can leave a list in
ShuffleOrders(seq) ==
    {p \in [1..Len(seq) -> 1..Len(seq)] :
        \A i, j \in 1..Len(seq) : i # j => p[i] # p[j]}

Shuffles(seq) == {[i \in 1..Len(seq) |-> seq[p[i]]] : p \in ShuffleOrders(seq)}

(***************************************************************************)
(* StackOverflowDataset                                                     *)
(***************************************************************************)

MaxQid == 2

MaxCalls == 3

min_upvotes == 10

Qids == 1..MaxQid

\* the questions the API can serve: a score on either side of min_upvotes
QuestionPool ==
    [question_id : Qids, score : {min_upvotes - 1, min_upvotes}]

Title(q) == <<"title", q.question_id>>

\* response.json()["items"] of one page: questions with distinct ids
Batches ==
    {b \in UNION {[1..k -> QuestionPool] : k \in 0..MaxQid} :
        \A i, j \in 1..Len(b) : i # j => b[i].question_id # b[j].question_id}

\* the pieces of an answer body: markup tags and the text between them
AnswerBodies ==
    { << [tag |-> TRUE, s |-> "<p>"], [tag |-> FALSE, s |-> "use"],
         [tag |-> TRUE, s |-> "<code>"], [tag |-> FALSE, s |-> "git"],
         [tag |-> TRUE, s |-> "</code>"], [tag |-> TRUE, s |-> "</p>"] >> }

\* what the answers request can give: an HTTP error, no answer, or answers
AnswerResponses ==
    {[ok |-> FALSE, items |-> <<>>], [ok |-> TRUE, items |-> <<>>]}
        \cup {[ok |-> TRUE, items |-> <<b>>] : b \in AnswerBodies}

IsText(piece) == ~piece.tag

\* BeautifulSoup(body).get_text(separator="\n"): the text pieces, one per line
GetText(body) ==
    LET texts == SelectSeq(body, IsText)
    IN  Join([i \in 1..Len(texts) |-> <<texts[i].s>>], <<"\n">>)

\* [q for q in questions if q["score"] >= min_upvotes]
HasMinUpvotes(q) == q.score >= min_upvotes

FilterQuestions(questions) == SelectSeq(questions, HasMinUpvotes)

\* `if not self.questions`
NeedsRefill(questions) == questions = <<>>

\* a pop() that leaves the question in the list
PopKeep(questions) == [question |-> questions[Len(questions)], rest |-> questions]

\* question = self.questions.pop(), on a list that is not empty
Pop(questions) ==
    [question |-> questions[Len(questions)],
     rest |-> SubSeq(questions, 1, Len(questions) - 1)]

\* get_stack_answer(question): raise_for_status(), then answers[0]
StackAnswer(resp) ==
    IF ~resp.ok THEN [status |-> "raised", err |-> "HTTPError", answer |-> <<>>]
    ELSE IF resp.items = <<>>
         THEN [status |-> "raised", err |-> "IndexError", answer |-> <<>>]
         ELSE [status |-> "returned", err |-> "", answer |-> GetText(resp.items[1])]

Bump(f, qs) ==
    [id \in Qids |-> f[id] + Cardinality({i \in 1..Len(qs) : qs[i].question_id = id})]

StackInit ==
    stack = [pc |-> "idle", questions |-> <<>>, calls |-> 0,
             fetched |-> [id \in Qids |-> 0], returned |-> [id \in Qids |-> 0],
             via |-> "", startEmpty |-> FALSE, requested |-> FALSE,
             afterRefill |-> <<>>, err |-> "", ret |-> None]

RefillResponses ==
    {[ok |-> FALSE, items |-> <<>>]} \cup {[ok |-> TRUE, items |-> b] : b \in Batches}

\* get_stack_question() run to its end, `via` the caller (next() adds fetch_time).
\* refill: what the questions request gives when it is made (ok = FALSE: an HTTP
\* error), order: the order random.shuffle leaves, answers: the answers response.
StackQuestionCall(via) ==
    LET start == stack.questions
        requested == NeedsRefill(start)
        base == [stack EXCEPT !.calls = @ + 1, !.via = via,
                              !.startEmpty = (start = <<>>),
                              !.requested = requested, !.ret = None]
    IN  \E refill \in (IF requested THEN RefillResponses
                       ELSE {[ok |-> TRUE, items |-> <<>>]}) :
        IF requested /\ ~refill.ok
        THEN stack' = [base EXCEPT !.pc = "raised", !.err = "HTTPError",
                                   !.afterRefill = start]
        ELSE \E order \in (IF requested THEN Shuffles(FilterQuestions(refill.items))
                           ELSE {<<>>}) :
             LET filled == start \o order
                 seen == IF requested THEN Bump(stack.fetched, refill.items)
                         ELSE stack.fetched
             IN  IF filled = <<>>
                 THEN stack' = [base EXCEPT !.pc = "raised", !.err = "IndexError",
                                            !.afterRefill = filled, !.fetched = seen]
                 ELSE \E answers \in AnswerResponses :
                      LET p == Pop(filled)
                          a == StackAnswer(answers)
                      IN  IF a.status = "raised"
                          THEN stack' = [base EXCEPT
                                   !.pc = "raised", !.err = a.err,
                                   !.questions = p.rest, !.afterRefill = filled,
                                   !.fetched = seen]
                          ELSE \E dt \in (IF via = "next" THEN Elapsed ELSE {0}) :
                               stack' = [base EXCEPT
                                   !.pc = "returned", !.err = "",
                                   !.questions = p.rest, !.afterRefill = filled,
                                   !.fetched = seen,
                                   !.returned = Bump(@, <<p.question>>),
                                   !.ret = Some(
                                      LET info == [question |-> Title(p.question),
                                                   answer |-> a.answer]
                                      IN  IF via = "next"
                                          THEN info @@ [fetch_time |-> dt]
                                          ELSE info)]

\* StackOverflowDataset.get_stack_question(), called directly
StackGetQuestion ==
    /\ stack.pc # "off"
    /\ stack.calls < MaxCalls
    /\ StackQuestionCall("get_stack_question")
    /\ UNCHANGED <<mockds, chunker, coding, wiki, dateqa, mathds>>

\* StackOverflowDataset.next()
StackNext ==
    /\ stack.pc # "off"
    /\ stack.calls < MaxCalls
    /\ StackQuestionCall("next")
    /\ UNCHANGED <<mockds, chunker, coding, wiki, dateqa, mathds>>

SpecStackInit ==
    /\ StackInit
    /\ mockds = Off /\ chunker = Off /\ coding = Off
    /\ wiki = Off /\ dateqa = Off /\ mathds = Off

SpecStackNext == StackGetQuestion \/ StackNext

SpecStack == SpecStackInit /\ [][SpecStackNext]_vars

\* C10: a call of get_stack_question() requests a batch exactly when the queue
\* was empty as the call started; a call that returns yields the title of a
\* question that was in the queue after any refill and leaves the queue one
\* question shorter than it was then; and over all calls no question is returned
\* more often than it was fetched.
C10_RefillWhenEmptyPopOne ==
    (stack.pc \in {"returned", "raised"}) =>
        /\ stack.requested <=> stack.startEmpty
        /\ stack.pc = "returned" =>
              /\ \E i \in 1..Len(stack.afterRefill) :
                    /\ stack.ret[1].question = <<"title", stack.afterRefill[i].question_id>>
                    /\ stack.questions =
                          [j \in 1..(Len(stack.afterRefill) - 1) |->
                              IF j < i THEN stack.afterRefill[j]
                              ELSE stack.afterRefill[j + 1]]
              /\ Len(stack.questions) = Len(stack.afterRefill) - 1
        /\ \A id \in Qids : stack.returned[id] <= stack.fetched[id]

\* a call that found the queue not empty, fetched nothing and returned the
\* question left by the refill of an earlier call
C10_Witness ==
    /\ stack.pc = "returned"
    /\ ~stack.startEmpty /\ ~stack.requested
    /\ stack.calls >= 2
    /\ \E id \in Qids : stack.returned[id] = 1 /\ stack.fetched[id] = 1
    /\ stack.questions = <<>>

(***************************************************************************)
(* DateQADataset                                                            *)
(***************************************************************************)

MaxTries == 2

MaxEntries == 2

SectionNames == <<"Events", "Births", "Deaths">>

MonthNames == <<"January", "February", "March", "April", "May", "June", "July",
                "August", "September", "October", "November", "December">>

Link(title) == [title |-> title]

\* the <li> entries a page can hold: without a link, with one link, and with
\* two links of which the second has no title attribute
Entries ==
    { [text |-> "e0", links |-> <<>>],
      [text |-> "e1", links |-> <<Link(Some("T1"))>>],
      [text |-> "e2", links |-> <<Link(Some("T2")), Link(None)>>] }

EntryLists == UNION {[1..k -> Entries] : k \in 0..MaxEntries}

\* one section of a page: no <span id=name>, a span with no <ul> after it, or
\* a span followed by a <ul> of entries
SectionContents ==
    {[span |-> FALSE, ul |-> FALSE, li |-> <<>>],
     [span |-> TRUE, ul |-> FALSE, li |-> <<>>]}
        \cup {[span |-> TRUE, ul |-> TRUE, li |-> l] : l \in EntryLists}

NoSections == [i \in 1..3 |-> [span |-> FALSE, ul |-> FALSE, li |-> <<>>]]

\* requests.get(url): a status code and the page.  A call reads one section of
\* a page, so the sections a page has hold the same list here.
DatePages ==
    {[status_code |-> 404, sections |-> NoSections]}
        \cup {[status_code |-> 200,
               sections |-> [i \in 1..3 |-> IF i \in present THEN c ELSE NoSections[i]]] :
                present \in SUBSET (1..3), c \in SectionContents \ {NoSections[1]}}

\* max_days of the month in the year 2000
MaxDays(month) ==
    LET year == 2000
        d == IF month \in {1, 3, 5, 7, 8, 10, 12} THEN 31 ELSE 30
    IN  IF month # 2 THEN d ELSE 28 + (IF year % 4 = 0 THEN 1 ELSE 0)

\* random_date.strftime("%B %d")
FormatDate(month, day) == <<MonthNames[month], day \div 10, day % 10>>

\* the sections soup.find("span", id=name) finds, in the order of the names
AvailableSections(page) ==
    LET Present(i) == page.sections[i].span
    IN  SelectSeq(<<1, 2, 3>>, Present)

NewInstance ==
    [tries |-> 0, draws |-> 0, fetches |-> 0, non200 |-> 0, noEvents |-> 0,
     outcome |-> "running", err |-> "", ret |-> None, selected |-> None]

\* leaving the loop with an exception in place of the implicit return
DateFallThroughRaises(inst) == [inst EXCEPT !.outcome = "raised", !.err = "Exception"]

\* `while tries < self.max_tries` ends and the function returns nothing: None
DateFallThrough(inst) == [inst EXCEPT !.outcome = "none", !.ret = None]

\* selected_event = random.choice(events): the global generator
DateSelectEvent(seed, draw, events) == GlobalChoices(events)

\* one turn of the loop of get_random_event() on the page the request gives;
\* the set of results, one for each value random.choice can give
DateIteration(inst, seed, page) ==
    LET month == RngRandint(seed, inst.draws, 1, 12)
        day == RngRandint(seed, inst.draws + 1, 1, MaxDays(month))
        i1 == [inst EXCEPT !.tries = @ + 1, !.draws = @ + 2, !.fetches = @ + 1]
        available == AvailableSections(page)
    IN  IF page.status_code # 200
        THEN {[i1 EXCEPT !.non200 = @ + 1]}
        ELSE IF available = <<>>
        THEN {[i1 EXCEPT !.outcome = "raised", !.err = "IndexError"]}
        ELSE
        LET section == RngChoice(seed, i1.draws, available)
            i2 == [i1 EXCEPT !.draws = @ + 1]
            events_list == page.sections[section]
        IN  IF ~events_list.ul
            THEN {[i2 EXCEPT !.outcome = "raised", !.err = "AttributeError"]}
            ELSE IF events_list.li = <<>>
            THEN {[i2 EXCEPT !.noEvents = @ + 1]}
            ELSE
            { IF selected_event.links # <<>>
              THEN LET link == RngChoice(seed, i2.draws, selected_event.links)
                   IN  [i2 EXCEPT
                          !.draws = @ + 1,
                          !.outcome = "returned",
                          !.selected = Some(selected_event),
                          !.ret = Some([date |-> FormatDate(month, day),
                                        event |-> selected_event.text,
                                        next_page |-> link.title,
                                        section |-> SectionNames[section]])]
              ELSE [i2 EXCEPT !.outcome = "raised", !.err = "UnboundLocalError",
                              !.selected = Some(selected_event)]
              : selected_event \in DateSelectEvent(seed, i2.draws, events_list.li) }

\* DateQADataset.next() around the result of get_random_event():
\* info["fetch_time"] = ... fails on None with a TypeError
DateNextResult(inst, dt) ==
    IF inst.outcome = "returned"
    THEN [status |-> "returned", ret |-> Some(inst.ret[1] @@ [fetch_time |-> dt])]
    ELSE [status |-> "raised", ret |-> None]

\* two instances built with the same seed and max_tries
DateInit ==
    \E seed \in Seeds, max_tries \in 1..MaxTries :
        dateqa = [pc |-> "idle", seed |-> seed, max_tries |-> max_tries, via |-> "",
                  inst |-> <<NewInstance, NewInstance>>,
                  next |-> <<[status |-> "", ret |-> None],
                             [status |-> "", ret |-> None]>>]

\* get_random_event() is called on both instances, directly or by next()
DateCall ==
    /\ dateqa.pc = "idle"
    /\ \E via \in {"next", "get_random_event"} :
         dateqa' = [dateqa EXCEPT !.pc = "running", !.via = via]
    /\ UNCHANGED <<mockds, chunker, coding, wiki, stack, mathds>>

DateFinished(insts, via, dt) ==
    [dateqa EXCEPT
        !.inst = insts,
        !.pc = IF insts[1].outcome = "running" THEN "running" ELSE "done",
        !.next = IF via = "next" /\ insts[1].outcome # "running"
                 THEN <<DateNextResult(insts[1], dt), DateNextResult(insts[2], dt)>>
                 ELSE @]

\* one turn of the loop in both instances, served the same page
DateAttempt ==
    /\ dateqa.pc = "running"
    /\ dateqa.inst[1].tries < dateqa.max_tries
    /\ \E page \in DatePages :
         \E a \in DateIteration(dateqa.inst[1], dateqa.seed, page),
            b \in DateIteration(dateqa.inst[2], dateqa.seed, page) :
              \E dt \in (IF dateqa.via = "next" /\ "returned" \in {a.outcome, b.outcome}
                         THEN Elapsed ELSE {0}) :
                 dateqa' = DateFinished(<<a, b>>, dateqa.via, dt)
    /\ UNCHANGED <<mockds, chunker, coding, wiki, stack, mathds>>

\* the loop condition fails in both instances
DateExhausted ==
    /\ dateqa.pc = "running"
    /\ dateqa.inst[1].tries >= dateqa.max_tries
    /\ dateqa' = DateFinished(<<DateFallThrough(dateqa.inst[1]),
                               DateFallThrough(dateqa.inst[2])>>, dateqa.via, 0)
    /\ UNCHANGED <<mockds, chunker, coding, wiki, stack, mathds>>

SpecDateInit ==
    /\ DateInit
    /\ mockds = Off /\ chunker = Off /\ coding = Off
    /\ wiki = Off /\ stack = Off /\ mathds = Off

SpecDateNext == DateCall \/ DateAttempt \/ DateExhausted

SpecDate == SpecDateInit /\ [][SpecDateNext]_vars

\* C5: two DateQADataset instances built with the same seed and served the same
\* pages return the same record (date, section, event, next_page) from
\* get_random_event(), whatever the global generator gives.
C5_SameSeedSameRecord ==
    (/\ dateqa.pc = "done"
     /\ dateqa.inst[1].outcome = "returned"
     /\ dateqa.inst[2].outcome = "returned")
        => dateqa.inst[1].ret = dateqa.inst[2].ret

\* C6: once get_random_event() has selected an entry it returns a record:
\* next_page is None when the entry has no link, and the title of one of the
\* entry's links when it has one; it does not fail for want of a link.
C6_NextPageNoneWithoutLinks ==
    \A i \in 1..2 :
        (dateqa.pc # "off" /\ dateqa.inst[i].selected # None) =>
            LET entry == dateqa.inst[i].selected[1]
            IN  /\ dateqa.inst[i].outcome = "returned"
                /\ entry.links = <<>> => dateqa.inst[i].ret[1].next_page = None
                /\ entry.links # <<>> =>
                      \E k \in 1..Len(entry.links) :
                          dateqa.inst[i].ret[1].next_page = entry.links[k].title

\* C7: a call of get_random_event() makes one page request for each turn of its
\* loop and at most max_tries of them, a response that is not 200 and a section
\* without entries each use up one of them, and the call whose max_tries requests
\* all ended in one of these two ways returns None and raises nothing.
C7_BoundedFetchesThenNone ==
    \A i \in 1..2 :
        dateqa.pc # "off" =>
            LET inst == dateqa.inst[i]
            IN  /\ inst.fetches <= dateqa.max_tries
                /\ inst.fetches = inst.tries
                /\ inst.outcome = "running" => inst.non200 + inst.noEvents = inst.fetches
                /\ inst.outcome = "none" =>
                      /\ inst.ret = None
                      /\ inst.fetches = dateqa.max_tries
                      /\ inst.non200 + inst.noEvents = dateqa.max_tries
                /\ (dateqa.pc = "done" /\ inst.non200 + inst.noEvents = dateqa.max_tries)
                      => inst.outcome = "none"

\* a call that used one try on a 404 and one on a section without entries
C7_Witness ==
    /\ dateqa.pc = "done"
    /\ dateqa.max_tries = 2
    /\ dateqa.inst[1].outcome = "none"
    /\ dateqa.inst[1].non200 = 1
    /\ dateqa.inst[1].noEvents = 1

(***************************************************************************)
(* MathDataset                                                              *)
(***************************************************************************)

parseable_list ==
    <<2, 7, 11, 15, 19, 21, 24, 27, 29, 30, 32, 33, 35, 36, 42, 45, 48, 49, 52,
      59, 60, 64, 66, 67, 68, 69, 70, 73, 76, 78, 81, 82, 83, 84, 85, 86, 87,
      92, 94, 95, 96, 97, 105, 108, 109, 111, 115, 122, 123>>

\* len(mathgenerator.getGenList()): the library has a generator for every id of
\* parseable_list
GenListLen == parseable_list[Len(parseable_list)] + 1

\* the solutions mathgenerator.genById can give: a number, an expression in x,
\* and a word
Solutions == { <<"$", "5", "$">>, <<"$", "x", "$">>, <<"$", "N", "o", "$">> }

\* parse_latex(str(solution).replace("$", "").strip()).evalf(subs=subs): the
\* expression with x replaced when subs names it, every other letter a symbol
ParseLatexEvalf(solution, subs) ==
    LET NotDollar(c) == c # "$"
        expr == StripChars(SelectSeq(solution, NotDollar), Whitespace)
    IN  [i \in 1..Len(expr) |->
            IF expr[i] = "x" /\ "x" \in subs THEN "10" ELSE expr[i]]

\* random_problem(parse) with the solution genById gives
RandomProblem(seed, draws, parse, solution) ==
    IF parse
    THEN LET choice == RngChoice(seed, draws, parseable_list)
             subs == IF \E i \in 1..Len(solution) : solution[i] = "x"
                     THEN {"x"} ELSE {}
         IN  [problem |-> <<"problem", choice>>,
              solution |-> ParseLatexEvalf(solution, subs),
              solution_raw |-> solution,
              topic |-> <<"topic", choice>>,
              subtopic |-> <<"subtopic", choice>>]
    ELSE LET choice == RngRandint(seed, draws, 0, GenListLen - 1)
         IN  [problem |-> <<"problem", choice>>,
              solution |-> solution,
              topic |-> <<"topic", choice>>,
              subtopic |-> <<"subtopic", choice>>]

MathInit ==
    \E seed \in Seeds : mathds = [pc |-> "idle", seed |-> seed, draws |-> 0, ret |-> None]

\* MathDataset.next(parse)
MathNext ==
    /\ mathds.pc = "idle"
    /\ \E parse \in BOOLEAN, solution \in Solutions, dt \in Elapsed :
         LET info == RandomProblem(mathds.seed, mathds.draws, parse, solution)
         IN  mathds' = [mathds EXCEPT
                !.pc = "returned",
                !.draws = @ + 1,
                !.ret = Some(info @@ [fetch_time |-> dt])]
    /\ UNCHANGED <<mockds, chunker, coding, wiki, stack, dateqa>>

(***************************************************************************)
(* WikiDataset                                                              *)
(***************************************************************************)

MaxPages == 2

MaxLines == 2

\* a value of `subset`, and a key of info["sections"]: a bool, None or a string
SubBool(b) == [kind |-> "bool", b |-> b, s |-> <<>>]

SubNone == [kind |-> "none", b |-> FALSE, s |-> <<>>]

SubStr(s) == [kind |-> "str", b |-> FALSE, s |-> s]

\* `elif subset`: the truth value of subset
Truthy(subset) ==
    \/ subset.kind = "bool" /\ subset.b
    \/ subset.kind = "str" /\ subset.s # <<>>

\* the pages the random-article request can list (a field that is missing is None)
PageKinds ==
    { [length |-> Some(2), linkshere |-> Some(<<7>>), extract |-> Some(<<"a">>)],
      [length |-> Some(1), linkshere |-> Some(<<7>>), extract |-> Some(<<"a">>)],
      [length |-> None,    linkshere |-> Some(<<7>>), extract |-> Some(<<"a">>)],
      [length |-> Some(2), linkshere |-> None,        extract |-> Some(<<"a">>)],
      [length |-> Some(2), linkshere |-> Some(<<7>>), extract |-> Some(<<>>)],
      [length |-> Some(2), linkshere |-> Some(<<7>>), extract |-> None] }

\* response.json(): without "query", or with the pages in the order of the
\* mapping; a page's title is its place in it
WikiResponses ==
    {[query |-> FALSE, pages |-> <<>>]}
        \cup {[query |-> TRUE,
               pages |-> [i \in 1..Len(kinds) |->
                            [title |-> i, length |-> kinds[i].length,
                             linkshere |-> kinds[i].linkshere,
                             extract |-> kinds[i].extract]]] :
                kinds \in UNION {[1..k -> PageKinds] : k \in 0..MaxPages}}

\* page_info.get(key, default)
Get(field, default) == IF field = None THEN default ELSE field[1]

\* the test of a page with both bounds exclusive
PageAcceptedExclusive(page_info, min_length_bytes, min_backlinks) ==
    /\ Get(page_info.length, 0) > min_length_bytes
    /\ Len(Get(page_info.linkshere, <<>>)) > min_backlinks
    /\ page_info.extract # None /\ page_info.extract[1] # <<>>

\* length >= self.min_length_bytes and backlinks >= self.min_backlinks and extract
PageAccepted(page_info, min_length_bytes, min_backlinks) ==
    /\ Get(page_info.length, 0) >= min_length_bytes
    /\ Len(Get(page_info.linkshere, <<>>)) >= min_backlinks
    /\ page_info.extract # None /\ page_info.extract[1] # <<>>

\* the record get_random_wikipedia_article() returns for a page (its
\* "categories", which nothing below reads, left out)
Article(page_info) ==
    [title |-> page_info.title,
     url |-> <<"fullurl", page_info.title>>,
     length |-> Get(page_info.length, 0),
     extract |-> page_info.extract[1],
     backlinks |-> Len(Get(page_info.linkshere, <<>>))]

\* `for page_id, page_info in data["query"]["pages"].items()`: the first page
\* that passes the test, or None
FirstAccepted(pages, min_length_bytes, min_backlinks) ==
    LET ok == {i \in 1..Len(pages) : PageAccepted(pages[i], min_length_bytes, min_backlinks)}
    IN  IF ok = {} THEN None
        ELSE Some(Article(pages[CHOOSE i \in ok : \A j \in ok : i <= j]))

\* one turn of the loop of get_random_wikipedia_article(): the article found in
\* the response, or None (no "query", or no page passes)
ArticleIn(data, min_length_bytes, min_backlinks) ==
    IF ~data.query THEN None
    ELSE FirstAccepted(data.pages, min_length_bytes, min_backlinks)

\* the lines an extract is made of
WikiLines == { <<>>, <<"a">>, <<"a", " ", "a">>, <<"=", "=", "s", "=", "=">> }

\* page.get("extract", "Content not found.")
ContentNotFound ==
    <<"C", "o", "n", "t", "e", "n", "t", " ", "n", "o", "t", " ",
      "f", "o", "u", "n", "d", ".">>

Contents ==
    {Join(ls, <<"\n">>) : ls \in UNION {[1..k -> WikiLines] : k \in 1..MaxLines}}
        \cup {ContentNotFound}

\* line.startswith("==") and line.endswith("==")
IsHeader(line) ==
    /\ Len(line) >= 2
    /\ line[1] = "=" /\ line[2] = "="
    /\ line[Len(line) - 1] = "=" /\ line[Len(line)] = "="

\* text[key] = value on a dict kept as the sequence of its items
DictSet(d, key, value) ==
    IF \E i \in 1..Len(d) : d[i].key = key
    THEN [i \in 1..Len(d) |-> IF d[i].key = key THEN [key |-> key, value |-> value] ELSE d[i]]
    ELSE Append(d, [key |-> key, value |-> value])

\* text[key] of a key the dict holds
DictGet(d, key) == d[CHOOSE i \in 1..Len(d) : d[i].key = key].value

HasKey(d, key) == \E i \in 1..Len(d) : d[i].key = key

RECURSIVE SectionLoop(_, _, _, _)
\* `for line in content.split("\n")` from line i on
SectionLoop(lines, i, text, section) ==
    IF i > Len(lines) THEN text
    ELSE IF IsHeader(lines[i])
         THEN LET name == SubStr(StripChars(StripChars(lines[i], {"="}), Whitespace))
              IN  SectionLoop(lines, i + 1, DictSet(text, name, <<>>), name)
         ELSE SectionLoop(lines, i + 1,
                  DictSet(text, section, DictGet(text, section) \o lines[i] \o <<"\n">>),
                  section)

\* get_wikipedia_article_content(title), on the extract the request gives
GetWikipediaArticleContent(content) ==
    SectionLoop(Split(content, <<"\n">>), 1, <<[key |-> SubNone, value |-> <<>>]>>, SubNone)

\* "\n".join(info["sections"].values())
JoinSections(sections) ==
    Join([i \in 1..Len(sections) |-> sections[i].value], <<"\n">>)

\* the test of the text by its length in characters
EnoughWordsByLength(text, min_length_words) == Len(text) >= min_length_words

\* len(text.split()) >= self.min_length_words
EnoughWords(text, min_length_words) == WordCount(text) >= min_length_words

\* the article next(info=...) is given by its caller
KnownInfo == [title |-> 0, url |-> <<"fullurl", 0>>, length |-> 2,
              extract |-> <<"a">>, backlinks |-> 1]

NoSectionsYet == <<>>

WikiNew(min_length_words, min_length_bytes, max_tries, min_backlinks) ==
    [pc |-> "idle", min_length_words |-> min_length_words,
     min_length_bytes |-> min_length_bytes, max_tries |-> max_tries,
     min_backlinks |-> min_backlinks,
     entry |-> "", subset |-> SubBool(FALSE), chunk_sep |-> <<"\n">>, n_chunks |-> None,
     info |-> None, sections |-> NoSectionsYet, text |-> <<>>,
     tries |-> 0, broke |-> FALSE,
     requests |-> 0, resp |-> None, priorHit |-> FALSE,
     content |-> <<>>,
     err |-> "", ret |-> None]

\* WikiDataset(min_length_words, max_tries=...), the page thresholds at 1
WikiInit ==
    \E min_length_words \in {0, 1, 2}, max_tries \in 1..MaxTries :
        wiki = WikiNew(min_length_words, 1, max_tries, 1)

\* WikiDataset(min_length_bytes, max_tries, min_backlinks), a word minimum of 1
WikiArticleInit ==
    \E min_length_bytes \in {1, 2}, min_backlinks \in {0, 1}, max_tries \in 1..MaxTries :
        wiki = WikiNew(1, min_length_bytes, max_tries, min_backlinks)

Subsets == {SubBool(FALSE), SubBool(TRUE), SubNone, SubStr(<<"s">>), SubStr(<<"t">>)}

\* WikiDataset.next(subset, chunk_sep, n_chunks, info): entry, tries = 0
WikiNext ==
    /\ wiki.pc = "idle"
    /\ \E subset \in Subsets, chunk_sep \in ChunkSeps,
          n_chunks \in {None} \cup {Some(k) : k \in 1..MaxNChunks},
          info \in {None, Some(KnownInfo)} :
         wiki' = [wiki EXCEPT !.pc = "loop", !.entry = "next", !.subset = subset,
                              !.chunk_sep = chunk_sep, !.n_chunks = n_chunks,
                              !.info = info]
    /\ UNCHANGED <<mockds, chunker, coding, stack, dateqa, mathds>>

\* WikiDataset.get_random_wikipedia_article() called by itself: entry, tries = 0
WikiGetArticle ==
    /\ wiki.pc = "idle"
    /\ wiki' = [wiki EXCEPT !.pc = "article", !.entry = "article"]
    /\ UNCHANGED <<mockds, chunker, coding, stack, dateqa, mathds>>

\* control is in get_random_wikipedia_article(): called by itself, or by the
\* loop of next() when info is None
InArticle ==
    \/ wiki.pc = "article"
    \/ /\ wiki.pc = "loop" /\ ~wiki.broke
       /\ wiki.tries < wiki.max_tries /\ wiki.info = None

\* a page of the response has the length, the backlinks and an extract
HasHit(resp) ==
    /\ resp.query
    /\ \E i \in 1..Len(resp.pages) :
          /\ Get(resp.pages[i].length, 0) >= wiki.min_length_bytes
          /\ Len(Get(resp.pages[i].linkshere, <<>>)) >= wiki.min_backlinks
          /\ Get(resp.pages[i].extract, <<>>) # <<>>

\* one turn of `while tries < self.max_tries` of get_random_wikipedia_article():
\* the request, tries += 1, and the pages of the response.  (resp and priorHit
\* record the responses of a call made by itself.)
WikiArticleRequest ==
    /\ InArticle
    /\ wiki.requests < wiki.max_tries
    /\ \E data \in WikiResponses :
         LET found == ArticleIn(data, wiki.min_length_bytes, wiki.min_backlinks)
             seen == [wiki EXCEPT
                        !.requests = @ + 1,
                        !.resp = IF wiki.entry = "article" THEN Some(data) ELSE None,
                        !.priorHit = IF wiki.resp = None THEN @
                                     ELSE @ \/ HasHit(wiki.resp[1])]
         IN  IF found = None THEN wiki' = seen
             ELSE IF wiki.entry = "article"
                  THEN wiki' = [seen EXCEPT !.pc = "returned", !.ret = found]
                  ELSE wiki' = [seen EXCEPT !.info = found, !.requests = 0]
    /\ UNCHANGED <<mockds, chunker, coding, stack, dateqa, mathds>>

\* the loop of get_random_wikipedia_article() ends: raise Exception
WikiArticleExhausted ==
    /\ InArticle
    /\ wiki.requests >= wiki.max_tries
    /\ wiki' = [wiki EXCEPT !.pc = "raised", !.err = "article"]
    /\ UNCHANGED <<mockds, chunker, coding, stack, dateqa, mathds>>

\* the rest of one turn of the loop of next(), info known: the sections of the
\* article, the joined text, tries += 1, and the word test
WikiContent ==
    /\ wiki.pc = "loop" /\ ~wiki.broke
    /\ wiki.tries < wiki.max_tries
    /\ wiki.info # None
    /\ \E content \in Contents :
         LET sections == GetWikipediaArticleContent(content)
             text == JoinSections(sections)
         IN  IF EnoughWords(text, wiki.min_length_words)
             THEN wiki' = [wiki EXCEPT !.sections = sections, !.text = text,
                                       !.tries = @ + 1, !.broke = TRUE]
             ELSE wiki' = [wiki EXCEPT !.sections = NoSectionsYet, !.text = text,
                                       !.tries = @ + 1, !.info = None]
    /\ UNCHANGED <<mockds, chunker, coding, stack, dateqa, mathds>>

\* next() after its loop: the failure when tries == max_tries, else the text
\* chosen by subset, and the record
WikiFinish ==
    /\ wiki.pc = "loop"
    /\ wiki.broke \/ wiki.tries >= wiki.max_tries
    /\ IF wiki.tries = wiki.max_tries
       THEN wiki' = [wiki EXCEPT !.pc = "raised", !.err = "next"]
       ELSE \E o \in (IF HasKey(wiki.sections, wiki.subset)
                      THEN {[status |-> "returned",
                             out |-> DictGet(wiki.sections, wiki.subset)]}
                      ELSE IF Truthy(wiki.subset)
                      THEN ChunkOutcomes(wiki.text, wiki.chunk_sep, wiki.n_chunks)
                      ELSE {[status |-> "returned", out |-> wiki.text]}),
               dt \in Elapsed :
              IF o.status = "raised"
              THEN wiki' = [wiki EXCEPT !.pc = "raised", !.err = "chunk"]
              ELSE wiki' = [wiki EXCEPT
                      !.pc = "returned",
                      !.ret = Some(wiki.info[1] @@
                                   [sections |-> wiki.sections, text |-> o.out,
                                    fetch_time |-> dt])]
    /\ UNCHANGED <<mockds, chunker, coding, stack, dateqa, mathds>>

SpecWikiInit ==
    /\ WikiInit
    /\ mockds = Off /\ chunker = Off /\ coding = Off
    /\ stack = Off /\ dateqa = Off /\ mathds = Off

SpecWikiNext ==
    WikiNext \/ WikiArticleRequest \/ WikiArticleExhausted \/ WikiContent \/ WikiFinish

SpecWiki == SpecWikiInit /\ [][SpecWikiNext]_vars

SpecWikiArticleInit ==
    /\ WikiArticleInit
    /\ mockds = Off /\ chunker = Off /\ coding = Off
    /\ stack = Off /\ dateqa = Off /\ mathds = Off

SpecWikiArticleNext == WikiGetArticle \/ WikiArticleRequest \/ WikiArticleExhausted

SpecWikiArticle == SpecWikiArticleInit /\ [][SpecWikiArticleNext]_vars

(***************************************************************************)
(* WikiDataset.get_wikipedia_article_content() called by itself             *)
(***************************************************************************)

MaxExtractLines == 4

\* the lines an extract is made of: text, an empty line, and section headers
ExtractLines ==
    { <<>>, <<"a">>, <<"b">>,
      <<"=", "=", "s", "=", "=">>, <<"=", "=", " ", "t", " ", "=", "=">> }

\* the "extract" of the page of the response: lines joined by "\n"
Extracts ==
    {Join(ls, <<"\n">>) : ls \in UNION {[1..k -> ExtractLines] : k \in 1..MaxExtractLines}}

\* get_wikipedia_article_content(title): the request, page.get("extract",
\* "Content not found."), and the dict of sections, returned.  (content
\* records the text that was split.)
WikiGetContent ==
    /\ wiki.pc = "idle"
    /\ \E extract \in {None} \cup {Some(e) : e \in Extracts} :
         LET content == Get(extract, ContentNotFound)
         IN  wiki' = [wiki EXCEPT !.pc = "returned", !.entry = "content",
                                  !.content = content,
                                  !.ret = Some(GetWikipediaArticleContent(content))]
    /\ UNCHANGED <<mockds, chunker, coding, stack, dateqa, mathds>>

SpecWikiContentInit ==
    /\ WikiInit
    /\ mockds = Off /\ chunker = Off /\ coding = Off
    /\ stack = Off /\ dateqa = Off /\ mathds = Off

SpecWikiContentNext == WikiGetContent

SpecWikiContent == SpecWikiContentInit /\ [][SpecWikiContentNext]_vars

C2_RaisesOnlyOnExhaustion ==
    (wiki.pc = "raised" /\ wiki.err = "next") =>
        ~(WordCount(wiki.text) >= wiki.min_length_words)

\* C9: get_random_wikipedia_article() makes at most max_tries requests; the
\* article it returns is the first page, in the order of the response, with
\* length >= min_length_bytes, backlinks >= min_backlinks and an extract that is
\* not empty, of the first response that has one; and it raises only after
\* max_tries responses none of which has such a page, which it then does.
C9_FirstAcceptedPageOrRaise ==
    (wiki.pc # "off" /\ wiki.entry = "article") =>
        /\ wiki.requests <= wiki.max_tries
        /\ wiki.pc = "returned" =>
              /\ ~wiki.priorHit
              /\ \E i \in 1..Len(wiki.resp[1].pages) :
                    /\ HasHit([query |-> TRUE, pages |-> <<wiki.resp[1].pages[i]>>])
                    /\ ~HasHit([query |-> TRUE, pages |-> SubSeq(wiki.resp[1].pages, 1, i - 1)])
                    /\ wiki.ret[1].title = wiki.resp[1].pages[i].title
              /\ wiki.resp[1].query
        /\ wiki.pc = "raised" =>
              /\ wiki.requests = wiki.max_tries
              /\ ~wiki.priorHit
              /\ ~HasHit(wiki.resp[1])
        /\ (wiki.pc = "article" /\ wiki.resp # None) =>
              ~wiki.priorHit /\ ~HasHit(wiki.resp[1])

\* the second request of a call gives two pages, and the second is the one returned
C9_Witness ==
    /\ wiki.pc = "returned" /\ wiki.entry = "article"
    /\ wiki.requests = 2
    /\ Len(wiki.resp[1].pages) = 2
    /\ wiki.ret[1].title = 2

\* the name of the nearest header before line i of lines, or None
NearestHeader(lines, i) ==
    LET before == {j \in 1..(i - 1) : IsHeader(lines[j])}
    IN  IF before = {} THEN SubNone
        ELSE LET j == CHOOSE k \in before : \A m \in before : m <= k
             IN  SubStr(StripChars(StripChars(lines[j], {"="}), Whitespace))

\* the lines of the extract that are no header and whose nearest preceding
\* header is named key, in their order
LinesUnder(lines, key) ==
    LET idx == SelectSeq([i \in 1..Len(lines) |-> i],
                         LAMBDA i : ~IsHeader(lines[i]) /\ NearestHeader(lines, i) = key)
    IN  [n \in 1..Len(idx) |-> lines[idx[n]]]

RECURSIVE InOrder(_, _)
\* the elements of sub occur in seq, in the order of sub
InOrder(sub, seq) ==
    IF sub = <<>> THEN TRUE
    ELSE IF seq = <<>> THEN FALSE
    ELSE IF Head(sub) = Head(seq) THEN InOrder(Tail(sub), Tail(seq))
    ELSE InOrder(sub, Tail(seq))

\* C11: get_wikipedia_article_content() loses no content: every line of the
\* extract that is not a header is found, in its original order, among the
\* lines of the body stored under the name of the nearest preceding header
\* (under None when no header precedes it), also when two headers of the
\* extract have the same name.
C11_NoContentLost ==
    (wiki.pc = "returned" /\ wiki.entry = "content") =>
        LET lines == Split(wiki.content, <<"\n">>)
            text == wiki.ret[1]
            keys == {NearestHeader(lines, i) : i \in 1..Len(lines)}
        IN  \A key \in keys :
                LinesUnder(lines, key) # <<>> =>
                    /\ HasKey(text, key)
                    /\ InOrder(LinesUnder(lines, key),
                               Split(DictGet(text, key), <<"\n">>))

(***************************************************************************)
(* The module as a whole: one adapter is constructed and used.              *)
(***************************************************************************)

Init ==
    \/ MockInit /\ chunker = Off /\ coding = Off /\ wiki = Off
                /\ stack = Off /\ dateqa = Off /\ mathds = Off
    \/ SpecChunkInit
    \/ SpecCodingInit
    \/ SpecWikiInit
    \/ SpecStackInit
    \/ SpecDateInit
    \/ MathInit /\ mockds = Off /\ chunker = Off /\ coding = Off
                /\ wiki = Off /\ stack = Off /\ dateqa = Off

Next ==
    \/ MockNext
    \/ ChunkCall
    \/ CodingNext \/ CodingPull \/ CodingStreamEnd
    \/ WikiNext \/ WikiGetArticle \/ WikiArticleRequest \/ WikiArticleExhausted
    \/ WikiContent \/ WikiFinish \/ WikiGetContent
    \/ StackGetQuestion \/ StackNext
    \/ DateCall \/ DateAttempt \/ DateExhausted
    \/ MathNext

Spec == Init /\ [][Next]_vars

\* C4: every record the next() of a dataset class returns has a fetch_time field.
C4_EveryRecordHasFetchTime ==
    /\ mockds.pc = "returned" => "fetch_time" \in DOMAIN mockds.ret[1]
    /\ coding.pc = "returned" => "fetch_time" \in DOMAIN coding.ret[1]
    /\ (wiki.pc = "returned" /\ wiki.entry = "next") => "fetch_time" \in DOMAIN wiki.ret[1]
    /\ (stack.pc = "returned" /\ stack.via = "next") => "fetch_time" \in DOMAIN stack.ret[1]
    /\ dateqa.pc = "done" =>
          \A i \in 1..2 : dateqa.next[i].status = "returned" =>
                "fetch_time" \in DOMAIN dateqa.next[i].ret[1]
    /\ mathds.pc = "returned" => "fetch_time" \in DOMAIN mathds.ret[1]
====
